---- MODULE Spec2Model ----
(***************************************************************************)
(* Model of the components module (packages/nuxt/src/components/module.ts): *)
(* directory normalisation, the app:resolve, app:templates and             *)
(* builder:watch handlers, the getComponents accessor and the two bundler  *)
(* configuration hooks.                                                    *)
(*                                                                         *)
(* A JavaScript value is a record with a field `kind` (the result of       *)
(* typeof, with null and arrays told apart); an object carries only the    *)
(* properties it has.  A string that is a path is the sequence of its      *)
(* pieces: the separator "/" and atomic pieces such as "components",       *)
(* "-old" or "node_modules", so that startsWith, includes, split and the   *)
(* regular expression are computed on the text and not on an abstraction   *)
(* of "being inside a directory".                                          *)
(***************************************************************************)
EXTENDS Integers, Sequences, FiniteSets, TLC

VARIABLES
    nDir,          \* normalizeDirs: the `components` option handed in
    nCwd,          \* normalizeDirs: the source root handed in
    nOut,          \* [called, dirs]: what the layer-flattened list receives
    layers,        \* nuxt.options._layers: <<[components, srcDir], ...>>
    fsDirs,        \* the paths that are directories on disk
    allDirs,       \* app:resolve: allDirs after the components:dirs hook
    componentDirs, \* let componentDirs
    warnings,      \* the paths console.warn was called for in the last app:resolve
    transpile,     \* nuxt.options.build.transpile
    resolveStatus, \* "none", "ok", or "threw" for the last app:resolve
    resolveCount,  \* how many times app:resolve has run
    watchEvent,    \* the last builder:watch event delivered: [event, path]
    requests,      \* the builder:generateApp calls its handler made
    fsVersion,     \* the state of the component files on disk
    started,       \* how many app:templates passes have started
    pc,            \* per pass: "idle", "scanning", "extending", "done", "failed"
    newComponents, \* per pass: const newComponents
    registry,      \* context.components
    getMode,       \* the argument of the last getComponents call
    returned,      \* what it returned
    treeshake,     \* nuxt.options.experimental.treeshakeClientOnly
    viteConfig,    \* the config the vite:extendConfig handlers were given
    webpackConfigs \* the configs the webpack:config handlers were given

normVars == <<nDir, nCwd, nOut>>
dirVars == <<layers, fsDirs, allDirs, componentDirs, warnings, transpile,
             resolveStatus, resolveCount>>
watchVars == <<watchEvent, requests>>
passVars == <<fsVersion, started, pc, newComponents>>
getVars == <<getMode, returned>>
bundlerVars == <<treeshake, viteConfig, webpackConfigs>>
vars == <<normVars, dirVars, watchVars, passVars, registry, getVars, bundlerVars>>

-----------------------------------------------------------------------------
(* JavaScript values *)

Undefined == [kind |-> "undefined"]
Null == [kind |-> "null"]
Bool(b) == [kind |-> "boolean", b |-> b]
Str(s) == [kind |-> "string", s |-> s]
Arr(items) == [kind |-> "array", items |-> items]
Obj == [kind |-> "object"]

Has(v, f) == f \in DOMAIN v

isArray(v) == v.kind = "array"

\* typeof v
typeof(v) == IF v.kind \in {"array", "null"} THEN "object" ELSE v.kind

\* JavaScript truthiness of a value
Truthy(v) ==
    CASE v.kind = "undefined" -> FALSE
      [] v.kind = "null" -> FALSE
      [] v.kind = "boolean" -> v.b
      [] v.kind = "string" -> v.s # <<>>
      [] OTHER -> TRUE

\* v.path is truthy: the property is there and is not the empty string
HasPath(v) == Has(v, "path") /\ v.path # <<>>

-----------------------------------------------------------------------------
(* Strings *)

startsWith(s, prefix) ==
    Len(prefix) <= Len(s) /\ SubSeq(s, 1, Len(prefix)) = prefix

endsWith(s, suffix) ==
    Len(suffix) <= Len(s) /\ SubSeq(s, Len(s) - Len(suffix) + 1, Len(s)) = suffix

includes(s, piece) == \E i \in 1..Len(s) : s[i] = piece

\* path.split(/[\\/]/).filter(Boolean).length
SegmentCount(p) ==
    Cardinality({i \in 1..Len(p) : p[i] # "/" /\ (i = 1 \/ p[i - 1] = "/")})

\* nuxt.options.srcDir, which the alias "~" stands for
SrcDir == <<"/", "app">>

\* nuxt.options.buildDir
BuildDir == <<"/", "app", "/", ".nuxt">>

resolveAlias(p) ==
    IF p # <<>> /\ p[1] = "~" THEN SrcDir \o Tail(p) ELSE p

resolve(cwd, p) ==
    IF p # <<>> /\ p[1] = "/" THEN p
    ELSE IF p = <<>> THEN cwd
    ELSE cwd \o <<"/">> \o p

-----------------------------------------------------------------------------
(* normalizeDirs *)

compareDirByPathLength(a, b) == SegmentCount(b.path) - SegmentCount(a.path)

\* Array.prototype.flat(): one level
RECURSIVE Flat(_)
Flat(s) ==
    IF s = <<>> THEN <<>>
    ELSE (IF isArray(Head(s)) THEN Head(s).items ELSE <<Head(s)>>)
         \o Flat(Tail(s))

\* Array.prototype.sort(compareDirByPathLength): a stable sort
RECURSIVE InsertDir(_, _)
InsertDir(sorted, d) ==
    IF sorted = <<>> THEN <<d>>
    ELSE IF compareDirByPathLength(sorted[Len(sorted)], d) <= 0
         THEN Append(sorted, d)
         ELSE Append(InsertDir(SubSeq(sorted, 1, Len(sorted) - 1), d),
                     sorted[Len(sorted)])

RECURSIVE SortDirs(_)
SortDirs(s) ==
    IF s = <<>> THEN <<>>
    ELSE InsertDir(SortDirs(SubSeq(s, 1, Len(s) - 1)), s[Len(s)])

\* normalizeArray with a fault: the results of the recursive calls are kept
\* as they are
normalizeArrayNested(results) == results

\* the array branch, after the recursive calls
normalizeArray(results) == SortDirs(Flat(results))

defaultDirs(cwd) ==
    << [kind |-> "object",
        path |-> resolve(cwd, <<"components", "/", "global">>),
        global |-> TRUE],
       [kind |-> "object", path |-> resolve(cwd, <<"components">>)] >>

\* (dir.dirs || [dir]).map(...).filter(_dir => _dir.path).map(...)
objectDirs(dir, cwd) ==
    LET given == IF Has(dir, "dirs") THEN dir.dirs ELSE <<dir>>
        asObj(d) == IF typeof(d) = "string" THEN [kind |-> "object", path |-> d.s]
                    ELSE d
        dirs == SelectSeq([i \in 1..Len(given) |-> asObj(given[i])], HasPath)
    IN  [i \in 1..Len(dirs) |->
            [dirs[i] EXCEPT !.path = resolve(cwd, resolveAlias(dirs[i].path))]]

RECURSIVE normalizeDirs(_, _)
normalizeDirs(dir, cwd) ==
    IF isArray(dir)
    THEN Arr(normalizeArray([i \in 1..Len(dir.items) |->
                                normalizeDirs(dir.items[i], cwd)]))
    ELSE IF dir = Bool(TRUE) \/ dir.kind = "undefined"
    THEN Arr(defaultDirs(cwd))
    ELSE IF typeof(dir) = "string"
    THEN [kind |-> "object", path |-> resolve(cwd, resolveAlias(dir.s))]
    ELSE IF ~Truthy(dir)
    THEN Arr(<<>>)
    ELSE Arr(objectDirs(dir, cwd))

-----------------------------------------------------------------------------
(* The `components` options the model feeds in *)

MaxNodes == 4

DirsObject ==
    [kind |-> "object",
     dirs |-> << Str(<<"ui">>),
                 [kind |-> "object", path |-> <<"ui", "/", "forms", "/", "fields">>],
                 Obj >>]

NormAtoms ==
    { Bool(TRUE), Undefined, Bool(FALSE), Null,
      Str(<<"ui">>),
      Str(<<"~", "/", "lib", "/", "components">>),
      [kind |-> "object", path |-> <<"ui", "/", "forms">>, global |-> TRUE],
      [kind |-> "object", path |-> <<"node_modules", "/", "kit">>],
      Obj,
      [kind |-> "object", path |-> <<>>],
      DirsObject }

\* the options built from `atoms` with exactly n nodes (a list is one node)
RECURSIVE OptionsOfSize(_, _), ListsOfSize(_, _)
OptionsOfSize(atoms, n) ==
    IF n = 1 THEN atoms \cup {Arr(<<>>)}
    ELSE {Arr(s) : s \in ListsOfSize(atoms, n - 1)}

ListsOfSize(atoms, n) ==
    IF n = 0 THEN {<<>>}
    ELSE UNION { {<<c>> \o r : c \in OptionsOfSize(atoms, k),
                               r \in ListsOfSize(atoms, n - k)} : k \in 1..n }

Options(atoms, n) == UNION {OptionsOfSize(atoms, k) : k \in 1..n}

LayerRoots ==
    << <<"/", "app">>,
       <<"/", "app", "/", "node_modules", "/", "theme">>,
       <<"/", "base", "/", "site", "/", "src">> >>

-----------------------------------------------------------------------------
(* app:resolve *)

MaxLayerNodes == 3
MaxResolves == 2

isPureObjectOrString(val) ==
    (~isArray(val) /\ typeof(val) = "object") \/ typeof(val) = "string"

isDirectory(p) == p \in fsDirs

DEFAULT_COMPONENTS_DIRS_RE(p) ==
    \/ endsWith(p, <<"/", "components">>)
    \/ endsWith(p, <<"/", "components", "/", "global">>)

\* what the handlers of the components:dirs hook do to the list they are given
HookEdits == {"none", "push null", "push empty string", "unshift module dir"}

ModuleDir ==
    [kind |-> "object",
     path |-> <<"/", "app", "/", "node_modules", "/", "lib", "/", "dist", "/", "ui">>,
     transpile |-> FALSE]

callHookComponentsDirs(h, dirs) ==
    CASE h = "none" -> dirs
      [] h = "push null" -> Append(dirs, Null)
      [] h = "push empty string" -> Append(dirs, Str(<<>>))
      [] h = "unshift module dir" -> <<ModuleDir>> \o dirs

\* const dirOptions = typeof dir === 'object' ? dir : { path: dir }
dirOptionsOf(dir) ==
    IF typeof(dir) = "object" THEN dir ELSE [kind |-> "object", path |-> dir.s]

\* reading dirOptions.path of null is a TypeError
throwsInMap(dir) == dir.kind = "null"

\* the call of console.warn
warnsFor(dir) ==
    LET dirOptions == dirOptionsOf(dir)
        dirPath == resolveAlias(dirOptions.path)
    IN  ~isDirectory(dirPath) /\ ~DEFAULT_COMPONENTS_DIRS_RE(dirOptions.path)

\* transpileOf with a fault: an explicit `transpile` is not looked at
transpileOfPathOnly(dirOptions, dirPath) == includes(dirPath, "node_modules")

transpileOf(dirOptions, dirPath) ==
    IF Has(dirOptions, "transpile") THEN dirOptions.transpile
    ELSE includes(dirPath, "node_modules")

\* the record the map callback returns (extensions, pattern and ignore, which
\* no other part of the module reads, are left out)
resolvedDir(dir) ==
    LET dirOptions == dirOptionsOf(dir)
        dirPath == resolveAlias(dirOptions.path)
    IN  [kind |-> "object",
         global |-> Has(dirOptions, "global") /\ dirOptions.global,
         level |-> 0,
         enabled |-> TRUE,
         path |-> dirPath,
         transpile |-> transpileOf(dirOptions, dirPath)]

inNodeModules(dir) == includes(dir.path, "node_modules")
notInNodeModules(dir) == ~inNodeModules(dir)
isEnabled(dir) == dir.enabled
isTranspiled(dir) == dir.transpile

\* orderDirs with a fault: the two groups the other way round
orderDirsModulesFirst(dirs) ==
    SelectSeq(dirs, inNodeModules) \o SelectSeq(dirs, notInNodeModules)

\* componentDirs = [...non node_modules, ...node_modules]
orderDirs(dirs) ==
    SelectSeq(dirs, notInNodeModules) \o SelectSeq(dirs, inNodeModules)

layerDirs ==
    Flat([i \in 1..Len(layers) |->
            normalizeDirs(layers[i].components, layers[i].srcDir)])

\* the entries the map callback is called for before it throws, if it does
reachedBeforeThrow(kept) ==
    LET bad == {i \in 1..Len(kept) : throwsInMap(kept[i])}
    IN  IF bad = {} THEN kept
        ELSE SubSeq(kept, 1, (CHOOSE i \in bad : \A j \in bad : i <= j) - 1)

warnedPaths(reached) ==
    LET warned == SelectSeq(reached, warnsFor)
    IN  [i \in 1..Len(warned) |-> resolveAlias(dirOptionsOf(warned[i]).path)]

transpiledPaths(dirs) ==
    LET pushed == SelectSeq(dirs, isTranspiled)
    IN  [i \in 1..Len(pushed) |-> pushed[i].path]

AppResolve(h) ==
    /\ resolveCount < MaxResolves
    /\ resolveCount' = resolveCount + 1
    /\ allDirs' = callHookComponentsDirs(h, layerDirs)
    /\ LET kept == SelectSeq(allDirs', isPureObjectOrString)
       IN  /\ warnings' = warnedPaths(reachedBeforeThrow(kept))
           /\ IF \A i \in 1..Len(kept) : ~throwsInMap(kept[i])
              THEN /\ componentDirs' =
                        orderDirs(SelectSeq([i \in 1..Len(kept) |-> resolvedDir(kept[i])],
                                            isEnabled))
                   /\ transpile' = transpile \o transpiledPaths(componentDirs')
                   /\ resolveStatus' = "ok"
              ELSE /\ resolveStatus' = "threw"
                   /\ UNCHANGED <<componentDirs, transpile>>
    /\ UNCHANGED <<layers, fsDirs>>
    /\ UNCHANGED <<normVars, watchVars, passVars, registry, getVars, bundlerVars>>

-----------------------------------------------------------------------------
(* builder:watch *)

WatchEvents == {"add", "unlink", "change", "addDir"}

WatchPaths ==
    { <<"components", "/", "Foo.vue">>,
      <<"components", "/", "global", "/", "Bar.vue">>,
      <<"components", "-old", "/", "Foo.vue">>,
      <<"pages", "/", "index.vue">>,
      <<"ui", "/", "Button.vue">>,
      <<"ui">> }

BuilderWatch(event, path) ==
    /\ watchEvent' = [delivered |-> TRUE, event |-> event, path |-> path]
    /\ IF event \notin {"add", "unlink"}
       THEN requests' = 0
       ELSE LET fPath == resolve(SrcDir, path)
            IN  requests' =
                  IF \E i \in 1..Len(componentDirs) :
                        startsWith(fPath, componentDirs[i].path)
                  THEN 1 ELSE 0
    /\ UNCHANGED <<normVars, dirVars, passVars, registry, getVars, bundlerVars>>

-----------------------------------------------------------------------------
(* app:templates and getComponents *)

MaxPasses == 2
MaxFsChanges == 2
MaxComponents == 3

Passes == 1..MaxPasses

otherThanPasses == <<normVars, dirVars, watchVars, getVars, bundlerVars>>

Catalogue ==
    << [name |-> "Foo", mode |-> "all"],
       [name |-> "Bar", mode |-> "client"],
       [name |-> "Baz", mode |-> "server"] >>

\* the components on disk in state v of the files: the scanner gives the same
\* list for the same state
scanComponents(v) ==
    SubSeq(Catalogue, 1, IF v <= Len(Catalogue) THEN v ELSE Len(Catalogue))

\* what the handlers of the components:extend hook do to the list they are given
ExtendEdits == {"none", "push"}

callHookComponentsExtend(edit, components) ==
    IF edit = "push"
    THEN Append(components, [name |-> "Extra", mode |-> "all"])
    ELSE components

\* a file is added to or removed from the component directories
FsChange ==
    /\ fsVersion < MaxFsChanges
    /\ fsVersion' = fsVersion + 1
    /\ UNCHANGED <<started, pc, newComponents, registry>>
    /\ UNCHANGED otherThanPasses

\* the handler is called and waits for scanComponents
StartPass(p) ==
    /\ p = started + 1
    /\ pc[p] = "idle"
    /\ started' = p
    /\ pc' = [pc EXCEPT ![p] = "scanning"]
    /\ UNCHANGED <<fsVersion, newComponents, registry>>
    /\ UNCHANGED otherThanPasses

\* ScanResolved with a fault: the scanned list is published before the
\* components:extend hook has run
ScanResolvedPublishing(p) ==
    /\ pc[p] = "scanning"
    /\ newComponents' = [newComponents EXCEPT ![p] = scanComponents(fsVersion)]
    /\ registry' = newComponents'[p]
    /\ pc' = [pc EXCEPT ![p] = "extending"]
    /\ UNCHANGED <<fsVersion, started>>
    /\ UNCHANGED otherThanPasses

\* scanComponents resolves; the handler calls the components:extend hook and
\* waits for it
ScanResolved(p) ==
    /\ pc[p] = "scanning"
    /\ newComponents' = [newComponents EXCEPT ![p] = scanComponents(fsVersion)]
    /\ pc' = [pc EXCEPT ![p] = "extending"]
    /\ UNCHANGED <<fsVersion, started, registry>>
    /\ UNCHANGED otherThanPasses

\* scanComponents rejects: the handler rejects
ScanRejected(p) ==
    /\ pc[p] = "scanning"
    /\ pc' = [pc EXCEPT ![p] = "failed"]
    /\ UNCHANGED <<fsVersion, started, newComponents, registry>>
    /\ UNCHANGED otherThanPasses

\* the hook resolves, having edited the list; context.components = newComponents
ExtendResolved(p, edit) ==
    /\ pc[p] = "extending"
    /\ newComponents' =
          [newComponents EXCEPT ![p] = callHookComponentsExtend(edit, @)]
    /\ registry' = newComponents'[p]
    /\ pc' = [pc EXCEPT ![p] = "done"]
    /\ UNCHANGED <<fsVersion, started>>
    /\ UNCHANGED otherThanPasses

\* a handler of the hook rejects: the handler rejects
ExtendRejected(p) ==
    /\ pc[p] = "extending"
    /\ pc' = [pc EXCEPT ![p] = "failed"]
    /\ UNCHANGED <<fsVersion, started, newComponents, registry>>
    /\ UNCHANGED otherThanPasses

GetModes == {"client", "server", "all", "undefined"}

\* getComponents with a fault: the records of mode `all` are left out
getComponentsExact(mode) ==
    IF mode # "undefined" /\ mode # "all"
    THEN LET sameMode(c) == c.mode = mode
         IN  SelectSeq(registry, sameMode)
    ELSE registry

getComponents(mode) ==
    IF mode # "undefined" /\ mode # "all"
    THEN LET wanted(c) == c.mode = mode \/ c.mode = "all"
         IN  SelectSeq(registry, wanted)
    ELSE registry

GetComponents(mode) ==
    /\ getMode' = mode
    /\ returned' = getComponents(mode)
    /\ UNCHANGED registry
    /\ UNCHANGED <<normVars, dirVars, watchVars, passVars, bundlerVars>>

-----------------------------------------------------------------------------
(* vite:extendConfig and webpack:config *)

MaxConfigs == 2

WebpackNames == {"client", "server", "modern"}

ExistingPlugins == {Undefined, Arr(<<[plugin |-> "vue"]>>)}

componentsFile(mode) == resolve(BuildDir, <<"components.", mode, ".mjs">>)

treeShakePlugins ==
    IF treeshake THEN <<[plugin |-> "treeshake"]>> ELSE <<>>

\* config.plugins = config.plugins || []
pluginsOf(config) ==
    IF Truthy(config.plugins) THEN config.plugins.items ELSE <<>>

\* both handlers of vite:extendConfig, in the order they are registered
viteExtended(config, isClient) ==
    [alias |-> componentsFile(IF isClient THEN "client" ELSE "server"),
     plugins |-> pluginsOf(config)
                 \o <<[plugin |-> "loader",
                       mode |-> IF isClient THEN "client" ELSE "server"]>>
                 \o treeShakePlugins]

\* both handlers of webpack:config, for one config
webpackExtended(config) ==
    [name |-> config.name,
     alias |-> componentsFile(IF config.name = "server" THEN "server" ELSE "client"),
     plugins |-> pluginsOf(config)
                 \o <<[plugin |-> "loader",
                       mode |-> IF config.name = "client" THEN "client" ELSE "server"]>>
                 \o treeShakePlugins]

ViteExtendConfig(config, isClient) ==
    /\ viteConfig' = [called |-> TRUE, isClient |-> isClient,
                      config |-> viteExtended(config, isClient)]
    /\ UNCHANGED <<treeshake, webpackConfigs>>
    /\ UNCHANGED <<normVars, dirVars, watchVars, passVars, registry, getVars>>

WebpackConfig(configs) ==
    /\ webpackConfigs' = [i \in 1..Len(configs) |-> webpackExtended(configs[i])]
    /\ UNCHANGED <<treeshake, viteConfig>>
    /\ UNCHANGED <<normVars, dirVars, watchVars, passVars, registry, getVars>>

-----------------------------------------------------------------------------
(* The states the parts of the model start in *)

NormIdle ==
    /\ nDir = Undefined
    /\ nCwd = SrcDir
    /\ nOut = [called |-> FALSE]

DirsStart ==
    /\ allDirs = <<>>
    /\ componentDirs = <<>>
    /\ warnings = <<>>
    /\ transpile = <<>>
    /\ resolveStatus = "none"
    /\ resolveCount = 0

WatchStart ==
    /\ watchEvent = [delivered |-> FALSE]
    /\ requests = 0

PassesStart ==
    /\ fsVersion = 0
    /\ started = 0
    /\ pc = [p \in Passes |-> "idle"]
    /\ newComponents = [p \in Passes |-> <<>>]

GetStart ==
    /\ getMode = "none"
    /\ returned = <<>>

BundlerIdle ==
    /\ treeshake = FALSE
    /\ viteConfig = [called |-> FALSE]
    /\ webpackConfigs = <<>>

LayerAtoms ==
    { Bool(TRUE),
      Str(<<"ui">>),
      Str(<<"~", "/", "lib", "/", "components">>),
      [kind |-> "object", path |-> <<"ui">>, transpile |-> TRUE],
      [kind |-> "object", path |-> <<"node_modules", "/", "kit">>, transpile |-> FALSE],
      [kind |-> "object", path |-> <<"node_modules", "/", "kit", "/", "dist">>],
      Obj }

\* the layers of a project: at most Len(LayerRoots) of them, their options
\* holding at most n nodes together
LayersUpTo(atoms, n) ==
    LET lists == UNION {ListsOfSize(atoms, k) : k \in 1..n}
    IN  { [i \in 1..Len(s) |-> [components |-> s[i], srcDir |-> LayerRoots[i]]] :
            s \in {t \in lists : Len(t) <= Len(LayerRoots)} }

FsCandidates ==
    { <<"/", "app", "/", "ui">>,
      <<"/", "app", "/", "lib", "/", "components">> }

-----------------------------------------------------------------------------
(* Specification: one call of normalizeDirs, flattened into the layer list *)

NormInit ==
    /\ nDir \in Options(NormAtoms, MaxNodes)
    /\ nCwd \in {LayerRoots[1], LayerRoots[3]}
    /\ nOut = [called |-> FALSE]
    /\ layers = <<>>
    /\ fsDirs = {}
    /\ DirsStart
    /\ WatchStart /\ PassesStart /\ registry = <<>> /\ GetStart /\ BundlerIdle

\* .map(layer => normalizeDirs(layer.config.components, layer.config.srcDir)).flat()
\* for one layer
Normalize ==
    /\ ~nOut.called
    /\ nOut' = [called |-> TRUE, dirs |-> Flat(<<normalizeDirs(nDir, nCwd)>>)]
    /\ UNCHANGED <<nDir, nCwd, dirVars, watchVars, passVars, registry, getVars,
                   bundlerVars>>

NormNext == Normalize

SpecNorm == NormInit /\ [][NormNext]_vars

\* C1: whatever accepted form the `components` option of a layer has, what
\* normalizeDirs contributes to the layer-flattened list holds descriptor
\* records only, never a list; and for true or undefined it is the global
\* components directory followed by the plain one.
C1_FlatDescriptors ==
    nOut.called =>
        /\ \A i \in 1..Len(nOut.dirs) :
              nOut.dirs[i].kind = "object" /\ HasPath(nOut.dirs[i])
        /\ (nDir = Bool(TRUE) \/ nDir = Undefined) =>
              nOut.dirs =
                << [kind |-> "object",
                    path |-> nCwd \o <<"/", "components", "/", "global">>,
                    global |-> TRUE],
                   [kind |-> "object", path |-> nCwd \o <<"/", "components">>] >>

C1_Witness ==
    /\ nOut.called
    /\ nDir.kind = "array"
    /\ \E i \in 1..Len(nDir.items) :
          /\ nDir.items[i].kind = "array"
          /\ \E j \in 1..Len(nDir.items[i].items) :
                nDir.items[i].items[j] = Bool(TRUE)
    /\ Len(nOut.dirs) >= 3

-----------------------------------------------------------------------------
(* Specification: app:resolve over the layers of a project *)

ResolveInit ==
    /\ NormIdle
    /\ layers \in LayersUpTo(LayerAtoms, MaxLayerNodes)
    /\ fsDirs \in SUBSET FsCandidates
    /\ DirsStart
    /\ WatchStart /\ PassesStart /\ registry = <<>> /\ GetStart /\ BundlerIdle

ResolveNext == \E h \in HookEdits : AppResolve(h)

SpecResolve == ResolveInit /\ [][ResolveNext]_vars

\* the entries of allDirs that app:resolve turns into directories, and their paths
keptEntries == SelectSeq(allDirs, isPureObjectOrString)
entryPath(e) == resolveAlias(IF e.kind = "string" THEN e.s ELSE e.path)
keptPaths == [i \in 1..Len(keptEntries) |-> entryPath(keptEntries[i])]
pathsOf(dirs) == [i \in 1..Len(dirs) |-> dirs[i].path]
underNodeModules(p) == \E i \in 1..Len(p) : p[i] = "node_modules"
notUnderNodeModules(p) == ~underNodeModules(p)

modulesLast(dirs) ==
    \A i, j \in 1..Len(dirs) :
        i < j => ~(underNodeModules(dirs[i].path) /\ ~underNodeModules(dirs[j].path))

deeperFirstInGroups(dirs) ==
    \A i, j \in 1..Len(dirs) :
        (i < j /\ underNodeModules(dirs[i].path) = underNodeModules(dirs[j].path))
            => SegmentCount(dirs[i].path) >= SegmentCount(dirs[j].path)

\* C2, as stated: after app:resolve the directories outside node_modules come
\* before those inside it, and within each of the two groups the directories
\* are in non-increasing order of path-segment count, for any number of
\* layers and any mix of configuration forms (checked where the
\* components:dirs handlers leave the list of the layers as it is).
C2_AsStated ==
    (resolveStatus = "ok" /\ allDirs = layerDirs) =>
        modulesLast(componentDirs) /\ deeperFirstInGroups(componentDirs)

\* C2, amended: after app:resolve the directories outside node_modules come
\* before those inside it; within each of the two groups the directories keep
\* the order they have in the list the components:dirs hook returns (layer
\* after layer); non-increasing segment count within a group holds when the
\* list comes from the list-form option of a single layer and the hook
\* leaves it as it is.
C2_PartitionKeepsLayerOrder ==
    resolveStatus = "ok" =>
        /\ modulesLast(componentDirs)
        /\ SelectSeq(pathsOf(componentDirs), notUnderNodeModules)
              = SelectSeq(keptPaths, notUnderNodeModules)
        /\ SelectSeq(pathsOf(componentDirs), underNodeModules)
              = SelectSeq(keptPaths, underNodeModules)
        /\ (Len(layers) = 1 /\ layers[1].components.kind = "array"
              /\ allDirs = layerDirs)
              => deeperFirstInGroups(componentDirs)

\* two layers, directories on both sides of node_modules, and a shallower
\* directory ahead of a deeper one of its group
C2_Witness ==
    /\ resolveStatus = "ok"
    /\ Len(layers) >= 2
    /\ \E i, j \in 1..Len(componentDirs) :
          underNodeModules(componentDirs[i].path)
              /\ ~underNodeModules(componentDirs[j].path)
    /\ ~deeperFirstInGroups(componentDirs)

implicitDefaults ==
    UNION { { layers[i].srcDir \o <<"/", "components">>,
              layers[i].srcDir \o <<"/", "components", "/", "global">> } :
            i \in 1..Len(layers) }

\* C6: a configured directory that is not on disk does not abort app:resolve
\* and stays in componentDirs, and a warning is emitted for it if and only if
\* it is absent and is not one of the layers' components and
\* components/global directories.
C6_AsStated ==
    resolveStatus = "ok" =>
        \A i \in 1..Len(keptPaths) :
            /\ \E j \in 1..Len(componentDirs) : componentDirs[j].path = keptPaths[i]
            /\ (\E k \in 1..Len(warnings) : warnings[k] = keptPaths[i])
                  <=> (keptPaths[i] \notin fsDirs
                          /\ keptPaths[i] \notin implicitDefaults)

\* C7: an entry without a path, from a layer's configuration or added by a
\* components:dirs handler, is dropped silently: app:resolve completes
\* without error and every directory of componentDirs has a non-empty path.
C7_AsStated ==
    /\ resolveStatus # "threw"
    /\ \A i \in 1..Len(componentDirs) : componentDirs[i].path # <<>>

expectedTranspile(e) ==
    IF e.kind = "object" /\ "transpile" \in DOMAIN e THEN e.transpile
    ELSE underNodeModules(entryPath(e))

-----------------------------------------------------------------------------
(* Specification: builder:watch events after app:resolve *)

WatchLayerOptions == {Bool(TRUE), Bool(FALSE), Str(<<"ui">>)}

WatchInit ==
    /\ NormIdle
    /\ layers \in {<<[components |-> c, srcDir |-> LayerRoots[1]]>> :
                     c \in WatchLayerOptions}
    /\ fsDirs = {}
    /\ DirsStart
    /\ WatchStart /\ PassesStart /\ registry = <<>> /\ GetStart /\ BundlerIdle

WatchNext ==
    \/ \E h \in HookEdits : AppResolve(h)
    \/ \E event \in WatchEvents, path \in WatchPaths : BuilderWatch(event, path)

SpecWatch == WatchInit /\ [][WatchNext]_vars

\* the file lies inside the directory: it is the directory or below it
insideDir(file, dir) == file = dir \/ startsWith(file, dir \o <<"/">>)

\* C3: for a builder:watch event, the handler issues exactly one
\* builder:generateApp request when the event is `add` or `unlink` and the
\* path, resolved against the source root, lies inside a tracked directory;
\* it issues none for a path outside all tracked directories (a sibling that
\* only shares a directory's string prefix included) or for another event.
C3_AsStated ==
    watchEvent.delivered =>
        requests =
            IF /\ watchEvent.event \in {"add", "unlink"}
               /\ \E i \in 1..Len(componentDirs) :
                     insideDir(SrcDir \o <<"/">> \o watchEvent.path,
                               componentDirs[i].path)
            THEN 1 ELSE 0

-----------------------------------------------------------------------------
(* Specification: app:templates passes, which may overlap *)

TemplatesInit ==
    /\ NormIdle
    /\ layers = <<>>
    /\ fsDirs = {}
    /\ DirsStart
    /\ WatchStart /\ PassesStart /\ registry = <<>> /\ GetStart /\ BundlerIdle

TemplatesNext ==
    \/ FsChange
    \/ \E p \in Passes : StartPass(p)
    \/ \E p \in Passes : ScanResolved(p)
    \/ \E p \in Passes : ScanRejected(p)
    \/ \E p \in Passes, edit \in ExtendEdits : ExtendResolved(p, edit)
    \/ \E p \in Passes : ExtendRejected(p)

SpecTemplates == TemplatesInit /\ [][TemplatesNext]_vars

\* C4: the registry is the empty list of startup or the whole list of one
\* app:templates pass whose scan and components:extend hook have both
\* completed; it changes only by the one assignment that ends such a pass,
\* and a pass whose scan or hook fails leaves it as it is.
C4_WholeSnapshots ==
    /\ [](registry = <<>>
            \/ \E p \in Passes : pc[p] = "done" /\ registry = newComponents[p])
    /\ [][registry' # registry =>
            \E p \in Passes :
                /\ pc[p] = "extending"
                /\ pc'[p] = "done"
                /\ registry' = newComponents'[p]]_vars
    /\ [][(\E p \in Passes : pc[p] # "failed" /\ pc'[p] = "failed")
            => registry' = registry]_vars

\* a pass has published a list with an added component, and a later pass failed
C4_Witness ==
    /\ \E p \in Passes :
          /\ pc[p] = "done"
          /\ registry = newComponents[p]
          /\ Len(registry) >= 2
    /\ \E p \in Passes : pc[p] = "failed" /\ newComponents[p] # <<>>

\* C10: when app:templates passes overlap, the registry, once all of them have
\* completed, holds the list of the pass that started last.
C10_AsStated ==
    (started >= 2 /\ \A p \in 1..started : pc[p] = "done")
        => registry = newComponents[started]

-----------------------------------------------------------------------------
(* Specification: getComponents over the registries a scan can leave *)

ComponentRecords ==
    { [name |-> "Foo", mode |-> "all"],
      [name |-> "Bar", mode |-> "client"],
      [name |-> "Baz", mode |-> "server"] }

GetInit ==
    /\ NormIdle
    /\ layers = <<>>
    /\ fsDirs = {}
    /\ DirsStart
    /\ WatchStart /\ PassesStart /\ GetStart /\ BundlerIdle
    /\ registry \in UNION {[1..n -> ComponentRecords] : n \in 0..MaxComponents}

GetNext == \E mode \in GetModes : GetComponents(mode)

SpecGet == GetInit /\ [][GetNext]_vars

\* the records of `records`, in order, whose mode is one of `modes`
recordsOfModes(records, modes) ==
    LET keep(c) == c.mode \in modes
    IN  SelectSeq(records, keep)

\* C8: getComponents('client') returns the registry records of mode client or
\* all, in registry order; getComponents('server') those of mode server or
\* all; getComponents('all') and getComponents() every record; the call does
\* not change the registry.
C8_FilteredByMode ==
    /\ [](/\ getMode = "client" =>
                returned = recordsOfModes(registry, {"client", "all"})
          /\ getMode = "server" =>
                returned = recordsOfModes(registry, {"server", "all"})
          /\ getMode \in {"all", "undefined"} => returned = registry)
    /\ [][registry' = registry]_vars

\* a registry holding a record of each mode, read for the client
C8_Witness ==
    /\ getMode = "client"
    /\ \A m \in {"client", "server", "all"} :
          \E i \in 1..Len(registry) : registry[i].mode = m
    /\ Len(returned) = 2

-----------------------------------------------------------------------------
(* Specification: the bundler configuration hooks *)

BundlerInit ==
    /\ NormIdle
    /\ layers = <<>>
    /\ fsDirs = {}
    /\ DirsStart
    /\ WatchStart /\ PassesStart /\ registry = <<>> /\ GetStart
    /\ treeshake \in BOOLEAN
    /\ viteConfig = [called |-> FALSE]
    /\ webpackConfigs = <<>>

WebpackInputs ==
    UNION {[1..n -> [name : WebpackNames, plugins : ExistingPlugins]] :
             n \in 1..MaxConfigs}

BundlerNext ==
    \/ \E plugins \in ExistingPlugins, isClient \in BOOLEAN :
          ViteExtendConfig([plugins |-> plugins], isClient)
    \/ \E configs \in WebpackInputs : WebpackConfig(configs)

SpecBundler == BundlerInit /\ [][BundlerNext]_vars

loaderModes(config) ==
    {config.plugins[i].mode :
        i \in {k \in 1..Len(config.plugins) : config.plugins[k].plugin = "loader"}}

oneLoader(config) ==
    Cardinality({k \in 1..Len(config.plugins) :
                    config.plugins[k].plugin = "loader"}) = 1

\* #components points at components.<mode>.mjs, one loader plugin is appended,
\* and the two modes are the same
aliasMatchesLoader(config) ==
    /\ oneLoader(config)
    /\ \E m \in {"client", "server"} :
          /\ config.alias = BuildDir \o <<"/", "components.", m, ".mjs">>
          /\ loaderModes(config) = {m}

\* C5: for both bundlers and every configuration handed to the hooks (any
\* isClient, any config.name), the #components alias is
\* <buildDir>/components.<mode>.mjs, one loader plugin is appended with a
\* mode, and the mode of the alias and the mode of the loader are the same,
\* the build target of the configuration.
C5_AsStated ==
    /\ viteConfig.called =>
          /\ aliasMatchesLoader(viteConfig.config)
          /\ loaderModes(viteConfig.config) =
                {IF viteConfig.isClient THEN "client" ELSE "server"}
    /\ \A i \in 1..Len(webpackConfigs) :
          /\ aliasMatchesLoader(webpackConfigs[i])
          /\ webpackConfigs[i].name \in {"client", "server"} =>
                loaderModes(webpackConfigs[i]) = {webpackConfigs[i].name}

====
